---- MODULE Spec2Model ----
(***************************************************************************)
(* A model of PII-Masking-Project/utils/ocr_mask.py: the rectangle merge   *)
(* (_merge_overlaps), the identifier and name detectors and the pipeline   *)
(* mask_sensitive_info.                                                    *)
(*                                                                         *)
(* A box is a tuple <<x, y, w, h>>, a rect a tuple <<x1, y1, x2, y2>>, a    *)
(* text a sequence of one-character strings, a word a record               *)
(* [text, left, top, width, height].                                       *)
(***************************************************************************)
EXTENDS Integers, Sequences, FiniteSets, TLC

\* Bounds of the merge inputs: origins in 0..MaxCoord, sizes in 0..MaxSize,
\* lists of at most MaxLen boxes.
MaxCoord == 2
MaxSize == 1
MaxLen == 3

\* Bound of the identifier texts: each digit group of the pattern is off its
\* length (3, 2, 4) by at most Slack.
Slack == 1

\* Bound of the word lists of the name detector and of the pipeline.
MaxWords == 5

VARIABLES
    pc,        \* position in the function under execution
    boxes,     \* _merge_overlaps: the argument
    rects,     \* _merge_overlaps: the local rects
    merged,    \* _merge_overlaps: the loop flag
    passes,    \* number of passes of the while loop executed so far
    out,       \* _merge_overlaps: the returned list
    words,     \* the recognized words, in recognition order
    i,         \* _find_name_boxes: the loop index (0-based, as in the code)
    hits,      \* _find_ssn_boxes, _find_name_boxes: the local hits
    mark,      \* len(hits) before the latest iteration of the label loop
    pairs,     \* the indices i at which the pair loop has appended a box
    ssn_boxes, \* the list _find_ssn_boxes returned
    name_boxes, \* the list _find_name_boxes returned
    input_decodable, \* environment: cv2.imread can decode input_path
    output_writable, \* environment: output_path can be written
    image,     \* mask_sensitive_info: "unread", "None" or "decoded"
    painted,   \* the boxes cv2.rectangle has filled on the image
    file,      \* the file at output_path: whether written, and with what masks
    result,    \* what mask_sensitive_info returned, "none" before
    error      \* the exception mask_sensitive_info raised, "none" if none

mergeVars == <<boxes, rects, merged, passes, out>>
detectVars == <<words, i, hits, mark, pairs, ssn_boxes, name_boxes>>
envVars == <<input_decodable, output_writable>>
pipeVars == <<envVars, image, painted, file, result, error>>
vars == <<pc, mergeVars, detectVars, pipeVars>>

Min(a, b) == IF a < b THEN a ELSE b
Max(a, b) == IF a > b THEN a ELSE b

(***************************************************************************)
(* _merge_overlaps                                                         *)
(***************************************************************************)

\* line 66: (x, y, w, h) -> [x, y, x+w, y+h]
ToRect(b) == <<b[1], b[2], b[1] + b[3], b[2] + b[4]>>

\* line 97: (x1, y1, x2, y2) -> (x1, y1, x2 - x1, y2 - y1)
ToBox(r) == <<r[1], r[2], r[3] - r[1], r[4] - r[2]>>

OverlapsStrict(r, s) ==
    ~(r[3] <= s[1] \/ s[3] <= r[1] \/ r[4] <= s[2] \/ s[4] <= r[2])

\* line 83: the overlap test of the current rect r against rects[j] = s
Overlaps(r, s) ==
    ~(r[3] < s[1] \/ s[3] < r[1] \/ r[4] < s[2] \/ s[4] < r[2])

EncloseMaxLeft(r, s) ==
    <<Max(r[1], s[1]), Min(r[2], s[2]), Max(r[3], s[3]), Max(r[4], s[4])>>

\* lines 85-86: the current rect grown to enclose s
Enclose(r, s) ==
    <<Min(r[1], s[1]), Min(r[2], s[2]), Max(r[3], s[3]), Max(r[4], s[4])>>

\* lines 78-88: the inner loop over j, from j on, for the current rect cur
RECURSIVE InnerLoop(_, _, _, _, _)
InnerLoop(rs, used, cur, j, m) ==
    IF j > Len(rs) THEN [cur |-> cur, used |-> used, merged |-> m]
    ELSE IF used[j] THEN InnerLoop(rs, used, cur, j + 1, m)
    ELSE IF Overlaps(cur, rs[j])
         THEN InnerLoop(rs, [used EXCEPT ![j] = TRUE], Enclose(cur, rs[j]),
                        j + 1, TRUE)
         ELSE InnerLoop(rs, used, cur, j + 1, m)

\* lines 74-90: the outer loop over i (here ix, 1-based), from ix on
RECURSIVE OuterLoop(_, _, _, _, _)
OuterLoop(rs, used, ix, new_rects, m) ==
    IF ix > Len(rs) THEN [rects |-> new_rects, merged |-> m]
    ELSE IF used[ix] THEN OuterLoop(rs, used, ix + 1, new_rects, m)
    ELSE LET r == InnerLoop(rs, used, rs[ix], ix + 1, m)
         IN  OuterLoop(rs, [r.used EXCEPT ![ix] = TRUE], ix + 1,
                       Append(new_rects, r.cur), r.merged)

MergePassOnce(rs) ==
    [OuterLoop(rs, [k \in 1..Len(rs) |-> FALSE], 1, <<>>, FALSE)
        EXCEPT !.merged = FALSE]

MergePassStuck(rs) ==
    [OuterLoop(rs, [k \in 1..Len(rs) |-> FALSE], 1, <<>>, FALSE)
        EXCEPT !.merged = TRUE]

\* lines 70-92: one pass of the while loop: the new rects and the flag
MergePass(rs) ==
    OuterLoop(rs, [k \in 1..Len(rs) |-> FALSE], 1, <<>>, FALSE)

\* lines 68-92: the while loop, run to its end
RECURSIVE MergeLoop(_)
MergeLoop(rs) ==
    LET p == MergePass(rs)
    IN  IF p.merged THEN MergeLoop(p.rects) ELSE p.rects

\* lines 55-98: the whole function
merge_overlaps(bs) ==
    IF bs = <<>> THEN <<>>
    ELSE LET rs == MergeLoop([k \in 1..Len(bs) |-> ToRect(bs[k])])
         IN  [k \in 1..Len(rs) |-> ToBox(rs[k])]

(***************************************************************************)
(* Texts: the str methods and the regular expression the detectors use     *)
(***************************************************************************)

UpperSeq ==
    <<"A", "B", "C", "D", "E", "F", "G", "H", "I", "J", "K", "L", "M",
      "N", "O", "P", "Q", "R", "S", "T", "U", "V", "W", "X", "Y", "Z">>

LowerSeq ==
    <<"a", "b", "c", "d", "e", "f", "g", "h", "i", "j", "k", "l", "m",
      "n", "o", "p", "q", "r", "s", "t", "u", "v", "w", "x", "y", "z">>

DigitSeq == <<"0", "1", "2", "3", "4", "5", "6", "7", "8", "9">>

IsUpperChar(c) == \E k \in 1..Len(UpperSeq) : UpperSeq[k] = c
IsLowerChar(c) == \E k \in 1..Len(LowerSeq) : LowerSeq[k] = c
IsDigitChar(c) == \E k \in 1..Len(DigitSeq) : DigitSeq[k] = c

\* \w of the re module: a letter, a digit or the underscore
IsWordChar(c) == IsUpperChar(c) \/ IsLowerChar(c) \/ IsDigitChar(c) \/ c = "_"

\* str.lower()
StrLower(t) ==
    [k \in 1..Len(t) |->
        IF IsUpperChar(t[k])
        THEN LowerSeq[CHOOSE n \in 1..Len(UpperSeq) : UpperSeq[n] = t[k]]
        ELSE t[k]]

\* str.strip(":"): the colons at both ends removed, those inside kept
RECURSIVE StripColons(_)
StripColons(t) ==
    IF t = <<>> THEN t
    ELSE IF Head(t) = ":" THEN StripColons(Tail(t))
    ELSE IF t[Len(t)] = ":" THEN StripColons(SubSeq(t, 1, Len(t) - 1))
    ELSE t

\* str.isupper(): some cased character, and no cased character lower-case
StrIsUpper(t) ==
    /\ \E k \in 1..Len(t) : IsUpperChar(t[k])
    /\ \A k \in 1..Len(t) : ~IsLowerChar(t[k])

\* str.islower(): some cased character, and no cased character upper-case
StrIsLower(t) ==
    /\ \E k \in 1..Len(t) : IsLowerChar(t[k])
    /\ \A k \in 1..Len(t) : ~IsUpperChar(t[k])

\* \b at the position before character pos (1-based; Len(t) + 1 is the end)
WordBoundary(t, pos) ==
    LET before == pos > 1 /\ IsWordChar(t[pos - 1])
        after == pos <= Len(t) /\ IsWordChar(t[pos])
    IN  before # after

SSN_REGEX_NoEndBoundary ==
    <<"\\b", "\\d", "\\d", "\\d", "[- ]?", "\\d", "\\d", "[- ]?",
      "\\d", "\\d", "\\d", "\\d">>

\* line 20: \b(\d{3}[- ]?\d{2}[- ]?\d{4})\b as the sequence of its elements
SSN_REGEX ==
    <<"\\b", "\\d", "\\d", "\\d", "[- ]?", "\\d", "\\d", "[- ]?",
      "\\d", "\\d", "\\d", "\\d", "\\b">>

\* The backtracking match of elements k.. of pattern pat at position pos:
\* an optional element is first taken, then skipped.
RECURSIVE MatchFrom(_, _, _, _)
MatchFrom(t, pos, pat, k) ==
    IF k > Len(pat) THEN TRUE
    ELSE IF pat[k] = "\\b"
         THEN WordBoundary(t, pos) /\ MatchFrom(t, pos, pat, k + 1)
    ELSE IF pat[k] = "\\d"
         THEN /\ pos <= Len(t)
              /\ IsDigitChar(t[pos])
              /\ MatchFrom(t, pos + 1, pat, k + 1)
    ELSE \/ /\ pos <= Len(t)
            /\ t[pos] \in {"-", " "}
            /\ MatchFrom(t, pos + 1, pat, k + 1)
         \/ MatchFrom(t, pos, pat, k + 1)

\* line 103: SSN_REGEX.search(text), as a truth value
RegexSearch(pat, t) == \E pos \in 1..(Len(t) + 1) : MatchFrom(t, pos, pat, 1)

(***************************************************************************)
(* The detectors                                                           *)
(***************************************************************************)

\* line 53: _expand_bbox, as a box
expand_bbox(left, top, width, height, pad) ==
    <<Max(0, left - pad), Max(0, top - pad), width + 2 * pad, height + 2 * pad>>

\* lines 101-105: the boxes of the words the pattern is found in, from word
\* k (1-based) on
RECURSIVE SsnHits(_, _)
SsnHits(ws, k) ==
    IF k > Len(ws) THEN <<>>
    ELSE LET w == ws[k]
         IN  IF RegexSearch(SSN_REGEX, w.text)
             THEN <<expand_bbox(w.left, w.top, w.width, w.height, 2)>>
                      \o SsnHits(ws, k + 1)
             ELSE SsnHits(ws, k + 1)

\* lines 100-106: the whole function
find_ssn_boxes(ws) == merge_overlaps(SsnHits(ws, 1))

\* line 25
NAME_LABELS ==
    {<<"n", "a", "m", "e">>,
     <<"a", "p", "p", "l", "i", "c", "a", "n", "t">>,
     <<"h", "o", "l", "d", "e", "r">>,
     <<"b", "e", "a", "r", "e", "r">>}

\* line 114: t.strip(":").lower() in NAME_LABELS
IsLabel(t) == StrLower(StripColons(t)) \in NAME_LABELS

\* lines 127-128
is_cap_word(t) ==
    /\ Len(t) > 1
    /\ StrIsUpper(<<t[1]>>)
    /\ StrIsLower(Tail(t))

\* lines 119-123 and 134-138: the padded union of the boxes of two words
PairBox(w1, w2) ==
    LET x == Min(w1.left, w2.left)
        y == Min(w1.top, w2.top)
        x2 == Max(w1.left + w1.width, w2.left + w2.width)
        y2 == Max(w1.top + w1.height, w2.top + w2.height)
    IN  expand_bbox(x, y, x2 - x, y2 - y, 2)

LabelHitsAtTwo(ws, n) ==
    IF IsLabel(ws[n + 1].text)
    THEN [k \in 1..Min(2, Len(ws) - 1 - n) |-> PairBox(ws[n + 1], ws[n + 1 + k])]
    ELSE <<>>

\* lines 113-124: the boxes the label loop appends for the word at index n
\* (0-based)
LabelHitsAt(ws, n) ==
    IF IsLabel(ws[n + 1].text)
    THEN [k \in 1..Min(3, Len(ws) - 1 - n) |-> PairBox(ws[n + 1], ws[n + 1 + k])]
    ELSE <<>>

\* lines 112-124: the label loop, from index n on
RECURSIVE LabelHits(_, _)
LabelHits(ws, n) ==
    IF n >= Len(ws) THEN <<>>
    ELSE LabelHitsAt(ws, n) \o LabelHits(ws, n + 1)

\* line 133: the test of the pair loop at index n (0-based)
IsCapPair(ws, n) == is_cap_word(ws[n + 1].text) /\ is_cap_word(ws[n + 2].text)

PairAdvanceByOne(ws, n) == n + 1

\* lines 140-142: the index the pair loop continues at
PairAdvance(ws, n) == IF IsCapPair(ws, n) THEN n + 2 ELSE n + 1

\* lines 130-142: the pair loop, from index n on
RECURSIVE PairHits(_, _)
PairHits(ws, n) ==
    IF ~(n < Len(ws) - 1) THEN <<>>
    ELSE IF IsCapPair(ws, n)
         THEN <<PairBox(ws[n + 1], ws[n + 2])>> \o PairHits(ws, PairAdvance(ws, n))
         ELSE PairHits(ws, PairAdvance(ws, n))

\* lines 108-144: the whole function
find_name_boxes(ws) == merge_overlaps(LabelHits(ws, 0) \o PairHits(ws, 0))

\* The argument lists of the bounded model.
BoxPool ==
    {<<x, y, w, h>> : x \in 0..MaxCoord, y \in 0..MaxCoord,
                      w \in 0..MaxSize, h \in 0..MaxSize}

SeqsUpTo(S, n) == UNION {[1..k -> S] : k \in 0..n}

DetectIdle ==
    /\ words = <<>>
    /\ i = 0
    /\ hits = <<>>
    /\ mark = 0
    /\ pairs = <<>>
    /\ ssn_boxes = <<>>
    /\ name_boxes = <<>>

\* The output path before the call: no file there.
NoFile == [written |-> FALSE, masks |-> <<>>]

PipeIdle ==
    /\ input_decodable = TRUE
    /\ output_writable = TRUE
    /\ image = "unread"
    /\ painted = <<>>
    /\ file = NoFile
    /\ result = "none"
    /\ error = "none"

MergeIdle ==
    /\ boxes = <<>>
    /\ rects = <<>>
    /\ merged = FALSE
    /\ passes = 0
    /\ out = <<>>

InitMerge ==
    /\ DetectIdle
    /\ PipeIdle
    /\ boxes \in SeqsUpTo(BoxPool, MaxLen)
    /\ pc = "call"
    /\ rects = <<>>
    /\ merged = FALSE
    /\ passes = 0
    /\ out = <<>>

\* lines 60-68: the early return, or the conversion and merged = True
MergeEnter ==
    /\ pc = "call"
    /\ IF boxes = <<>>
       THEN /\ pc' = "done"
            /\ UNCHANGED <<rects, merged>>
       ELSE /\ pc' = "loop"
            /\ rects' = [k \in 1..Len(boxes) |-> ToRect(boxes[k])]
            /\ merged' = TRUE
    /\ UNCHANGED <<boxes, passes, out, detectVars, pipeVars>>

\* lines 69-92: one iteration of "while merged"
MergeIterate ==
    /\ pc = "loop"
    /\ merged
    /\ LET p == MergePass(rects)
       IN  /\ rects' = p.rects
           /\ merged' = p.merged
    /\ passes' = passes + 1
    /\ UNCHANGED <<pc, boxes, out, detectVars, pipeVars>>

\* lines 94-98: the loop's exit, the conversion back and the return
MergeReturn ==
    /\ pc = "loop"
    /\ ~merged
    /\ out' = [k \in 1..Len(rects) |-> ToBox(rects[k])]
    /\ pc' = "done"
    /\ UNCHANGED <<boxes, rects, merged, passes, detectVars, pipeVars>>

NextMerge == MergeEnter \/ MergeIterate \/ MergeReturn

SpecMerge == InitMerge /\ [][NextMerge]_vars

\* The function is one synchronous call: once entered it runs to its return.
FairSpecMerge == SpecMerge /\ WF_vars(NextMerge)

(***************************************************************************)
(* Word lists                                                              *)
(***************************************************************************)

Layouts == {"line", "wrap"}

\* The box of the k-th word (1-based): on one line, or two words to a line
\* with the next line below, so that a following word can lie to the left.
WordBox(layout, k) ==
    IF layout = "line"
    THEN [left |-> 20 * (k - 1), top |-> 0, width |-> 8, height |-> 5]
    ELSE [left |-> 12 * ((k - 1) % 2), top |-> 9 * ((k - 1) \div 2),
          width |-> 8, height |-> 5]

MkWords(texts, layout) ==
    [k \in 1..Len(texts) |->
        [text |-> texts[k],
         left |-> WordBox(layout, k).left, top |-> WordBox(layout, k).top,
         width |-> WordBox(layout, k).width, height |-> WordBox(layout, k).height]]

Texts(ws) == [k \in 1..Len(ws) |-> ws[k].text]

(***************************************************************************)
(* _find_ssn_boxes on its own                                              *)
(***************************************************************************)

DigitRun(n) == [k \in 1..n |-> DigitSeq[(k % 10) + 1]]

Seps == {<<>>, <<"-">>, <<" ">>, <<":">>, <<"-", "-">>}

Pads == {<<>>, <<"1">>, <<"a">>, <<"_">>, <<":">>, <<"-">>, <<"S", "S", "N", ":">>}

SsnExamples ==
    {<<"1", "2", "3", "-", "4", "5", "-", "6", "7", "8", "9">>,
     <<"1", "2", "3", "4", "5", "6", "7", "8", "9">>,
     <<"1", "2", "3", " ", "4", "5", " ", "6", "7", "8", "9">>,
     <<"S", "S", "N", ":", "1", "2", "3", "-", "4", "5", "-", "6", "7", "8", "9">>,
     <<"1", "2", "-", "3", "4", "5", "-", "6", "7", "8", "9">>,
     <<"1", "2", "3", "4", "5", "6", "7", "8", "9", "0">>}

\* Texts around the pattern: three digit groups of about 3, 2 and 4 digits,
\* anything of Seps between them and anything of Pads at the ends.
SsnTexts ==
    SsnExamples \cup
    {pre \o DigitRun(a) \o s1 \o DigitRun(b) \o s2 \o DigitRun(c) \o post :
        pre \in Pads, post \in Pads, s1 \in Seps, s2 \in Seps,
        a \in (3 - Slack)..(3 + Slack), b \in (2 - Slack)..(2 + Slack),
        c \in (4 - Slack)..(4 + Slack)}

InitSsn ==
    /\ words \in {MkWords(<<t>>, "line") : t \in SsnTexts}
              \cup {MkWords(<<t, u>>, lay) :
                        t \in SsnExamples, u \in SsnExamples, lay \in Layouts}
    /\ pc = "ssn"
    /\ i = 0 /\ hits = <<>> /\ mark = 0 /\ pairs = <<>>
    /\ ssn_boxes = <<>> /\ name_boxes = <<>>
    /\ MergeIdle
    /\ PipeIdle

\* lines 100-106: _find_ssn_boxes(words)
SsnDetect ==
    /\ pc = "ssn"
    /\ hits' = SsnHits(words, 1)
    /\ ssn_boxes' = merge_overlaps(hits')
    /\ pc' = "done"
    /\ UNCHANGED <<pipeVars, mergeVars, words, i, mark, pairs, name_boxes>>

NextSsn == SsnDetect

SpecSsn == InitSsn /\ [][NextSsn]_vars

(***************************************************************************)
(* _find_name_boxes on its own, loop iteration by loop iteration           *)
(***************************************************************************)

NameVocab ==
    {<<"N", "a", "m", "e">>,
     <<"H", "O", "L", "D", "E", "R", ":">>,
     <<"n", "a", ":", "m", "e">>,
     <<"J", "o", "h", "n">>,
     <<"D", "o", "e", ",">>,
     <<"A", "1">>}

NameExamples ==
    {<<<<"N", "a", "m", "e">>, <<"J", "o", "h", "n">>, <<"D", "o", "e">>,
       <<"S", "m", "i", "t", "h">>>>,
     <<<<"M", "r">>, <<"J", "o", "h", "n">>, <<"D", "o", "e">>>>}

InitNames ==
    /\ words \in {MkWords(ts, lay) :
                    ts \in SeqsUpTo(NameVocab, MaxWords) \cup NameExamples,
                    lay \in Layouts}
    /\ pc = "labels"
    /\ i = 0 /\ hits = <<>> /\ mark = 0 /\ pairs = <<>>
    /\ ssn_boxes = <<>> /\ name_boxes = <<>>
    /\ MergeIdle
    /\ PipeIdle

\* lines 112-124: one iteration of the label loop
NameLabelStep ==
    /\ pc = "labels"
    /\ i < Len(words)
    /\ mark' = Len(hits)
    /\ hits' = hits \o LabelHitsAt(words, i)
    /\ i' = i + 1
    /\ UNCHANGED <<pc, pipeVars, mergeVars, words, pairs, ssn_boxes, name_boxes>>

\* line 130: the label loop is over, i = 0
NameLabelsDone ==
    /\ pc = "labels"
    /\ i = Len(words)
    /\ i' = 0
    /\ pc' = "pairs"
    /\ UNCHANGED <<pipeVars, mergeVars, words, hits, mark, pairs, ssn_boxes, name_boxes>>

\* lines 131-142: one iteration of the pair loop
NamePairStep ==
    /\ pc = "pairs"
    /\ i < Len(words) - 1
    /\ IF IsCapPair(words, i)
       THEN /\ hits' = Append(hits, PairBox(words[i + 1], words[i + 2]))
            /\ pairs' = Append(pairs, i)
       ELSE UNCHANGED <<hits, pairs>>
    /\ i' = PairAdvance(words, i)
    /\ UNCHANGED <<pc, pipeVars, mergeVars, words, mark, ssn_boxes, name_boxes>>

\* line 144: the pair loop is over, return _merge_overlaps(hits)
NameReturn ==
    /\ pc = "pairs"
    /\ ~(i < Len(words) - 1)
    /\ name_boxes' = merge_overlaps(hits)
    /\ pc' = "done"
    /\ UNCHANGED <<pipeVars, mergeVars, words, i, hits, mark, pairs, ssn_boxes>>

NextNames == NameLabelStep \/ NameLabelsDone \/ NamePairStep \/ NameReturn

SpecNames == InitNames /\ [][NextNames]_vars

(***************************************************************************)
(* mask_sensitive_info                                                     *)
(***************************************************************************)

PipeVocab ==
    {<<"1", "2", "3", "-", "4", "5", "-", "6", "7", "8", "9">>,
     <<"N", "a", "m", "e", ":">>,
     <<"J", "o", "h", "n">>,
     <<"t", "h", "e">>}

\* What _read_words_with_boxes may return (lines 27-50): the recognizer is
\* external, any list of words with a non-empty text is possible (the conf
\* field, which nothing reads, is left out).
OcrResults ==
    {MkWords(ts, lay) : ts \in SeqsUpTo(PipeVocab, MaxWords), lay \in Layouts}

\* The call: the caller passes a fresh output path (app.py lines 45-51).
Init ==
    /\ pc = "imread"
    /\ input_decodable \in BOOLEAN
    /\ output_writable \in BOOLEAN
    /\ image = "unread"
    /\ painted = <<>>
    /\ file = NoFile
    /\ result = "none"
    /\ error = "none"
    /\ DetectIdle
    /\ MergeIdle

MaskImreadUnchecked ==
    /\ pc = "imread"
    /\ image' = IF input_decodable THEN "decoded" ELSE "None"
    /\ pc' = "ocr"
    /\ UNCHANGED <<envVars, painted, file, result, error, mergeVars, detectVars>>

\* lines 152-154: cv2.imread returns None for what it cannot decode
MaskImread ==
    /\ pc = "imread"
    /\ image' = IF input_decodable THEN "decoded" ELSE "None"
    /\ IF image' = "None"
       THEN pc' = "raised" /\ error' = "ValueError"
       ELSE pc' = "ocr" /\ error' = error
    /\ UNCHANGED <<envVars, painted, file, result, mergeVars, detectVars>>

\* line 157: the recognizer returns its words, or its exception (pytesseract
\* has no engine to run, say) leaves the function
MaskReadWords ==
    /\ pc = "ocr"
    /\ \/ /\ \E ws \in OcrResults : words' = ws
          /\ pc' = "find_ssn"
          /\ error' = error
       \/ /\ words' = words
          /\ pc' = "raised"
          /\ error' = "TesseractError"
    /\ UNCHANGED <<envVars, image, painted, file, result, mergeVars,
                   i, hits, mark, pairs, ssn_boxes, name_boxes>>

\* line 160
MaskFindSsn ==
    /\ pc = "find_ssn"
    /\ ssn_boxes' = find_ssn_boxes(words)
    /\ pc' = "find_names"
    /\ UNCHANGED <<pipeVars, mergeVars, words, i, hits, mark, pairs, name_boxes>>

\* line 161
MaskFindNames ==
    /\ pc = "find_names"
    /\ name_boxes' = find_name_boxes(words)
    /\ pc' = "draw"
    /\ UNCHANGED <<pipeVars, mergeVars, words, i, hits, mark, pairs, ssn_boxes>>

MaskDrawMerged ==
    /\ pc = "draw"
    /\ painted' = merge_overlaps(ssn_boxes \o name_boxes)
    /\ pc' = "imwrite"
    /\ UNCHANGED <<envVars, image, file, result, error, mergeVars, detectVars>>

\* lines 164-165: one filled rectangle per box of ssn_boxes + name_boxes
MaskDraw ==
    /\ pc = "draw"
    /\ painted' = ssn_boxes \o name_boxes
    /\ pc' = "imwrite"
    /\ UNCHANGED <<envVars, image, file, result, error, mergeVars, detectVars>>

\* line 168: cv2.imwrite writes the file and returns True, or writes nothing
\* and returns False; the code drops the value it returns
MaskImwrite ==
    /\ pc = "imwrite"
    /\ file' = IF output_writable
               THEN [written |-> TRUE, masks |-> painted]
               ELSE file
    /\ pc' = "return"
    /\ UNCHANGED <<envVars, image, painted, result, error, mergeVars, detectVars>>

\* lines 170-175
MaskReturn ==
    /\ pc = "return"
    /\ result' = [path |-> "output_path",
                  counts |-> [ssn |-> Len(ssn_boxes),
                              names |-> Len(name_boxes),
                              total |-> Len(ssn_boxes) + Len(name_boxes)]]
    /\ pc' = "returned"
    /\ UNCHANGED <<envVars, image, painted, file, error, mergeVars, detectVars>>

Next ==
    \/ MaskImread
    \/ MaskReadWords
    \/ MaskFindSsn
    \/ MaskFindNames
    \/ MaskDraw
    \/ MaskImwrite
    \/ MaskReturn

Spec == Init /\ [][Next]_vars

\* Both entry points: a call of _merge_overlaps on any list of boxes, or a
\* call of mask_sensitive_info, whose detectors pass it their padded boxes.
InitMergeOrMask == InitMerge \/ Init

NextMergeOrMask == NextMerge \/ Next

SpecMergeOrMask == InitMergeOrMask /\ [][NextMergeOrMask]_vars

(***************************************************************************)
(* Properties of _merge_overlaps                                           *)
(***************************************************************************)

Range(s) == {s[k] : k \in 1..Len(s)}

Permuted(s) == {[k \in 1..Len(s) |-> s[f[k]]] : f \in Permutations(1..Len(s))}

\* rect r lies within rect s
Within(r, s) == s[1] <= r[1] /\ s[2] <= r[2] /\ r[3] <= s[3] /\ r[4] <= s[4]

\* C1: any two distinct rectangles of the returned list are separated on
\* some axis by a strict gap (x2 < a1, a2 < x1, y2 < b1 or b2 < y1), so
\* neither overlapping nor edge-touching rectangles are returned together.
C1_OutputDisjoint ==
    pc = "done" =>
        \A k, l \in 1..Len(out) :
            k # l =>
                LET r == ToRect(out[k])
                    s == ToRect(out[l])
                IN  r[3] < s[1] \/ s[3] < r[1] \/ r[4] < s[2] \/ s[4] < r[2]

\* C1 witness: a call that merged something and still returned two boxes.
C1_Witness == pc = "done" /\ Len(out) >= 2 /\ Len(out) < Len(boxes)

\* C2: the returned set of rectangles is the same for every permutation
\* of the argument list.
C2_OrderIndependent ==
    pc = "done" =>
        \A p \in Permuted(boxes) : Range(merge_overlaps(p)) = Range(out)

\* C2 witness: three distinct boxes whose merge needed a second merging
\* pass, so the passes depend on the order although the result does not.
C2_Witness ==
    /\ pc = "done"
    /\ Cardinality(Range(boxes)) = 3
    /\ passes = 3
    /\ \E p \in Permuted(boxes) : MergePass([k \in 1..3 |-> ToRect(p[k])]).rects
                                    # MergePass([k \in 1..3 |-> ToRect(boxes[k])]).rects

\* C9: the loop ends; a pass that merges returns strictly fewer rects, a
\* pass that merges nothing is the last one, and n boxes take at most n
\* passes.
C9_Terminates ==
    /\ [](passes <= Len(boxes))
    /\ [][MergeIterate =>
            /\ merged' => Len(rects') < Len(rects)
            /\ ~merged' => rects' = rects]_vars
    /\ [][(pc = "loop" /\ ~merged) => (pc' = "done" /\ passes' = passes)]_vars
    /\ <>(pc = "done")

\* C9 witness: a list of n = 3 boxes that takes all n passes.
C9_Witness == pc = "done" /\ Len(boxes) = 3 /\ passes = 3

\* C10: after the conversion and after every pass each argument box lies
\* within some current rect, and each lies within some returned box; so
\* each padded box a detector collected lies within some painted box.
C10_InputsCovered ==
    /\ pc = "loop" =>
          \A k \in 1..Len(boxes) :
              \E l \in 1..Len(rects) : Within(ToRect(boxes[k]), rects[l])
    /\ pc = "done" =>
          \A k \in 1..Len(boxes) :
              \E l \in 1..Len(out) : Within(ToRect(boxes[k]), ToRect(out[l]))
    /\ pc \in {"imwrite", "return", "returned"} =>
          \A b \in Range(SsnHits(words, 1))
                    \cup Range(LabelHits(words, 0) \o PairHits(words, 0)) :
              \E l \in 1..Len(painted) : Within(ToRect(b), ToRect(painted[l]))

\* C10 witness: a return after two merging passes in which some argument
\* box is no longer a box of its own.
C10_Witness ==
    /\ pc = "done"
    /\ passes = 3
    /\ \E k \in 1..Len(boxes) : boxes[k] \notin Range(out)

(***************************************************************************)
(* Properties of the identifier detector                                   *)
(***************************************************************************)

WordBoxPadded(w) ==
    <<Max(0, w.left - 2), Max(0, w.top - 2), w.width + 4, w.height + 4>>

\* u is 3 digits, at most one "-" or space, 2 digits, at most one "-" or
\* space, 4 digits
SsnShaped(u) ==
    \E s1 \in 0..1, s2 \in 0..1 :
        /\ Len(u) = 9 + s1 + s2
        /\ \A k \in 1..3 : IsDigitChar(u[k])
        /\ s1 = 1 => u[4] \in {"-", " "}
        /\ \A k \in (4 + s1)..(5 + s1) : IsDigitChar(u[k])
        /\ s2 = 1 => u[6 + s1] \in {"-", " "}
        /\ \A k \in (6 + s1 + s2)..(9 + s1 + s2) : IsDigitChar(u[k])

\* t holds such a substring with no word character next to it on either side
HoldsSsn(t) ==
    \E a \in 1..Len(t), b \in 1..Len(t) :
        /\ a <= b
        /\ SsnShaped(SubSeq(t, a, b))
        /\ a = 1 \/ ~IsWordChar(t[a - 1])
        /\ b = Len(t) \/ ~IsWordChar(t[b + 1])

SsnExamplesFlagged ==
    {<<"1", "2", "3", "-", "4", "5", "-", "6", "7", "8", "9">>,
     <<"1", "2", "3", "4", "5", "6", "7", "8", "9">>,
     <<"1", "2", "3", " ", "4", "5", " ", "6", "7", "8", "9">>,
     <<"S", "S", "N", ":", "1", "2", "3", "-", "4", "5", "-", "6", "7", "8", "9">>}

SsnExamplesNotFlagged ==
    {<<"1", "2", "-", "3", "4", "5", "-", "6", "7", "8", "9">>,
     <<"1", "2", "3", "4", "5", "6", "7", "8", "9", "0">>}

\* C6: the detector collects the padded box of exactly the words whose text
\* holds a boundary-delimited 3-2-4 digit substring; the four texts the
\* claim names as flagged are, the two it names as not flagged are not.
C6_FlaggedExactly ==
    pc = "done" =>
        /\ Range(hits) = {WordBoxPadded(words[k]) :
                            k \in {n \in 1..Len(words) : HoldsSsn(words[n].text)}}
        /\ Len(hits) = Cardinality({n \in 1..Len(words) : HoldsSsn(words[n].text)})
        /\ \A k \in 1..Len(words) :
            /\ words[k].text \in SsnExamplesFlagged
                  => WordBoxPadded(words[k]) \in Range(hits)
            /\ words[k].text \in SsnExamplesNotFlagged
                  => WordBoxPadded(words[k]) \notin Range(hits)

\* C6 witness: the detector has run on "SSN:123-45-6789" beside
\* "1234567890" and collected the first word's box only.
C6_Witness ==
    /\ pc = "done"
    /\ Len(words) = 2
    /\ words[1].text = <<"S", "S", "N", ":", "1", "2", "3", "-", "4", "5", "-",
                         "6", "7", "8", "9">>
    /\ words[2].text = <<"1", "2", "3", "4", "5", "6", "7", "8", "9", "0">>
    /\ hits = <<WordBoxPadded(words[1])>>

(***************************************************************************)
(* Properties of the name detector                                         *)
(***************************************************************************)

\* length > 1, first character upper-case, every other character a
\* lower-case letter
CapWordAllLower(t) ==
    /\ Len(t) > 1
    /\ IsUpperChar(t[1])
    /\ \A k \in 2..Len(t) : IsLowerChar(t[k])

\* length > 1, first character upper-case, no other character upper-case
\* and at least one of them a lower-case letter
CapWordNoUpper(t) ==
    /\ Len(t) > 1
    /\ IsUpperChar(t[1])
    /\ \A k \in 2..Len(t) : ~IsUpperChar(t[k])
    /\ \E k \in 2..Len(t) : IsLowerChar(t[k])

\* the padded bounding union of the boxes of two words
UnionPadded(w1, w2) ==
    LET u == Enclose(<<w1.left, w1.top, w1.left + w1.width, w1.top + w1.height>>,
                     <<w2.left, w2.top, w2.left + w2.width, w2.top + w2.height>>)
    IN  <<Max(0, u[1] - 2), Max(0, u[2] - 2), (u[3] - u[1]) + 4, (u[4] - u[2]) + 4>>

\* a step of the pair loop: with both tokens capitalized (as bothCap says)
\* one box for (i, i+1) and on to i+2, otherwise no box and on to i+1
PairStepAsStated(bothCap) ==
    IF bothCap
    THEN /\ hits' = Append(hits, UnionPadded(words[i + 1], words[i + 2]))
         /\ i' = i + 2
    ELSE /\ hits' = hits
         /\ i' = i + 1

\* no token belongs to two of the pairs (p, p+1) the loop has emitted
NoTokenInTwoPairs ==
    \A a, b \in 1..Len(pairs) : a < b => pairs[a] + 2 <= pairs[b]

MrJohnDoe == <<<<"M", "r">>, <<"J", "o", "h", "n">>, <<"D", "o", "e">>>>

\* for ["Mr", "John", "Doe"] exactly the pair (Mr, John) is emitted
MrJohnDoePairedOnce ==
    (pc = "done" /\ Texts(words) = MrJohnDoe) =>
        /\ pairs = <<0>>
        /\ hits = <<UnionPadded(words[1], words[2])>>

\* C7 as stated: the pair loop pairs tokens i and i+1 exactly when both
\* have length > 1, an upper-case first character and only lower-case
\* letters after it, then continues at i+2, otherwise at i+1; no token is
\* in two pairs; ["Mr", "John", "Doe"] gives the one pair (Mr, John).
C7_PairsAsStated ==
    /\ [][NamePairStep =>
            PairStepAsStated(CapWordAllLower(words[i + 1].text)
                             /\ CapWordAllLower(words[i + 2].text))]_vars
    /\ []NoTokenInTwoPairs
    /\ []MrJohnDoePairedOnce

\* C7 amended: the same, with "capitalized-word-like" meaning length > 1,
\* an upper-case first character, no upper-case character after it and at
\* least one lower-case letter after it (digits and punctuation allowed).
C7_PairsGreedy ==
    /\ [][NamePairStep =>
            PairStepAsStated(CapWordNoUpper(words[i + 1].text)
                             /\ CapWordNoUpper(words[i + 2].text))]_vars
    /\ []NoTokenInTwoPairs
    /\ []MrJohnDoePairedOnce

\* C7 witness: the loop is over, it paired a token that ends in punctuation
\* ("Doe,"), and the capitalized token right after that pair started the
\* next pair, not one with the pair's second token.
C7_Witness ==
    /\ pc = "done"
    /\ Len(pairs) = 2
    /\ pairs[2] = pairs[1] + 2
    /\ words[pairs[1] + 2].text = <<"D", "o", "e", ",">>

\* the text, less the colons at its two ends and lower-cased, is a label
LabelText(t) ==
    \E a \in 1..Len(t), b \in 1..Len(t) :
        /\ a <= b
        /\ \A k \in 1..(a - 1) : t[k] = ":"
        /\ \A k \in (b + 1)..Len(t) : t[k] = ":"
        /\ t[a] # ":" /\ t[b] # ":"
        /\ StrLower(SubSeq(t, a, b)) \in
              {<<"n", "a", "m", "e">>,
               <<"a", "p", "p", "l", "i", "c", "a", "n", "t">>,
               <<"h", "o", "l", "d", "e", "r">>,
               <<"b", "e", "a", "r", "e", "r">>}

NameJohnDoeSmith ==
    <<<<"N", "a", "m", "e">>, <<"J", "o", "h", "n">>, <<"D", "o", "e">>,
      <<"S", "m", "i", "t", "h">>>>

\* C8: the iteration of the label loop for a label token at index j of n
\* tokens appends exactly min(3, n-1-j) boxes, the k-th the padded union of
\* the label's box and the box of token j+k; ["Name", "John", "Doe",
\* "Smith"] gives label+John, label+Doe, label+Smith.
C8_LabelLookahead ==
    /\ (pc = "labels" /\ i > 0) =>
          LET n == Len(words)
              j == i - 1
          IN  LabelText(words[j + 1].text) =>
                /\ Len(hits) - mark = Min(3, n - 1 - j)
                /\ \A k \in 1..(Len(hits) - mark) :
                      hits[mark + k] = UnionPadded(words[j + 1], words[j + 1 + k])
    /\ (pc = "labels" /\ i = Len(words) /\ Texts(words) = NameJohnDoeSmith) =>
          hits = <<UnionPadded(words[1], words[2]),
                   UnionPadded(words[1], words[3]),
                   UnionPadded(words[1], words[4])>>

\* C8 witness: the iteration for a label followed by four tokens has
\* appended three boxes, the third reaching a token on the line below.
C8_Witness ==
    /\ pc = "labels"
    /\ i = 1
    /\ Len(words) = 5
    /\ LabelText(words[1].text)
    /\ Len(hits) = 3
    /\ words[4].top > words[1].top

(***************************************************************************)
(* Properties of mask_sensitive_info                                       *)
(***************************************************************************)

\* C3: the function never returns its (output_path, counts) while no file
\* was written at output_path; a write that fails ends in an error.
C3_WriteFailureSurfaced ==
    /\ pc = "returned" => file.written
    /\ ~output_writable => pc # "returned"

\* C4: with an input that cannot be decoded the function raises at the read
\* and nothing after it runs: no words are recognized, no box is found or
\* painted, nothing is written and nothing is returned.
C4_UnreadableInputRaises ==
    ~input_decodable =>
        /\ pc \in {"imread", "raised"}
        /\ pc = "raised" => error = "ValueError"
        /\ words = <<>>
        /\ ssn_boxes = <<>> /\ name_boxes = <<>>
        /\ painted = <<>>
        /\ file = NoFile
        /\ result = "none"

\* C4 witness: the read of an undecodable input has raised.
C4_Witness == ~input_decodable /\ pc = "raised" /\ image = "None"

\* C5: the returned counts are the lengths of the two detectors' merged
\* lists, total is their sum, and total is the number of boxes painted,
\* which are the two lists one after the other.
C5_CountsAddUp ==
    pc = "returned" =>
        /\ result.counts.ssn = Len(find_ssn_boxes(words))
        /\ result.counts.names = Len(find_name_boxes(words))
        /\ result.counts.total = result.counts.ssn + result.counts.names
        /\ result.counts.total = Len(painted)
        /\ painted = ssn_boxes \o name_boxes

\* C5 witness: a return with boxes of both detectors, an identifier box
\* overlapping a name box, both painted and both counted.
C5_Witness ==
    /\ pc = "returned"
    /\ result.counts.ssn >= 1
    /\ result.counts.names >= 1
    /\ \E a \in 1..Len(ssn_boxes), b \in 1..Len(name_boxes) :
          Overlaps(ToRect(ssn_boxes[a]), ToRect(name_boxes[b]))
    /\ file = [written |-> TRUE, masks |-> painted]

====
